---- MODULE Spec2Model ----
(***************************************************************************)
(* Start-up of raiko-host (raiko-host/src/main.rs): resolution of the      *)
(* option struct Opt from command-line flags, environment variables, an    *)
(* optional TOML file and the declared defaults, installation of the       *)
(* process-wide tracing subscriber, and the hand-off to serve.             *)
(***************************************************************************)
EXTENDS Integers, Sequences, FiniteSets, TLC

\* Bounds of the model.
MaxSupplied == 3      \* values supplied in total by flags, environment and file
MaxLogRecords == 1    \* log records serve emits while it runs

(***************************************************************************)
(* The option struct: struct Opt, main.rs lines 29-125.                    *)
(***************************************************************************)
Fields ==
    {"bind", "cache", "guest", "sgx_instance_id", "log_path", "proof_cache",
     "concurrency_limit", "max_log_days", "l2_chain", "max_caches",
     "config_path", "config_file", "log_level"}

\* Fields of type u32 / usize: their textual value is parsed as a number.
NumericFields ==
    {"sgx_instance_id", "proof_cache", "concurrency_limit", "max_log_days",
     "max_caches"}

\* Fields of type Option<PathBuf>: no default_value attribute.
OptionFields == {"log_path", "config_path"}

\* An absent value is << >>, a present textual value s is << s >>.
None == << >>
Some(s) == << s >>

\* The default_value attributes of Opt.
DefaultValue ==
    [bind              |-> Some("0.0.0.0:8080"),
     cache             |-> Some("/tmp"),
     guest             |-> Some("raiko-host/guests"),
     sgx_instance_id   |-> Some("0"),
     log_path          |-> None,
     proof_cache       |-> Some("1000"),
     concurrency_limit |-> Some("10"),
     max_log_days      |-> Some("7"),
     l2_chain          |-> Some("internal_devnet_a"),
     max_caches        |-> Some("20"),
     config_path       |-> None,
     config_file       |-> Some("config.toml"),
     log_level         |-> Some("info")]

(***************************************************************************)
(* Inputs of a run: the values an operator can supply.  Each source has    *)
(* its own value per field, so that the source of a resolved value can be  *)
(* told from the value; a numeric field can also be given a non-number.    *)
(***************************************************************************)
FlagValue ==
    [bind              |-> "1.2.3.4:9000",
     cache             |-> "/flag/cache",
     guest             |-> "/flag/guests",
     sgx_instance_id   |-> "1",
     log_path          |-> "/flag/log",
     proof_cache       |-> "100",
     concurrency_limit |-> "30",
     max_log_days      |-> "3",
     l2_chain          |-> "flag_chain",
     max_caches        |-> "10",
     config_path       |-> "/flag/etc",
     config_file       |-> "flag.toml",
     log_level         |-> "debug"]

EnvValue ==
    [bind              |-> "5.6.7.8:7000",
     cache             |-> "/env/cache",
     guest             |-> "/env/guests",
     sgx_instance_id   |-> "2",
     log_path          |-> "/env/log",
     proof_cache       |-> "200",
     concurrency_limit |-> "15",
     max_log_days      |-> "5",
     l2_chain          |-> "env_chain",
     max_caches        |-> "40",
     config_path       |-> "/env/etc",
     config_file       |-> "/abs/env.toml",
     log_level         |-> "warn"]

FileValue ==
    [bind              |-> "9.9.9.9:6000",
     cache             |-> "/file/cache",
     guest             |-> "/file/guests",
     sgx_instance_id   |-> "3",
     log_path          |-> "/file/log",
     proof_cache       |-> "300",
     concurrency_limit |-> "25",
     max_log_days      |-> "9",
     l2_chain          |-> "file_chain",
     max_caches        |-> "50",
     config_path       |-> "/file/etc",
     config_file       |-> "file.toml",
     log_level         |-> "trace"]

NotANumber == "abc"

\* The paths among the values above that are absolute.
AbsolutePaths ==
    {"/tmp", "/flag/cache", "/flag/guests", "/flag/log", "/flag/etc",
     "/env/cache", "/env/guests", "/env/log", "/env/etc", "/abs/env.toml",
     "/file/cache", "/file/guests", "/file/log", "/file/etc"}

Candidates(src, f) ==
    {CASE src = "flag" -> FlagValue[f]
       [] src = "env"  -> EnvValue[f]
       [] OTHER        -> FileValue[f]}
    \cup (IF f \in NumericFields THEN {NotANumber} ELSE {})

Empty == [f \in Fields |-> None]

Size(a) == Cardinality({f \in Fields : a[f] # None})

\* The assignments of at most k fields from one source.
RECURSIVE Assignments(_, _)
Assignments(src, k) ==
    IF k = 0 THEN {Empty}
    ELSE LET P == Assignments(src, k - 1)
         IN  P \cup UNION {{[a EXCEPT ![f] = Some(v)] :
                               a \in P, v \in Candidates(src, f)} :
                           f \in Fields}

\* What each source can hold, by the number of values it may still supply.
FlagAssignments == Assignments("flag", MaxSupplied)
EnvAssignments  == [k \in 0..MaxSupplied |-> Assignments("env", k)]
FileAssignments == [k \in 0..MaxSupplied |-> Assignments("file", k)]

(***************************************************************************)
(* Parsing of textual values into the field types.                         *)
(***************************************************************************)
NumTable ==
    ("0" :> 0) @@ ("1" :> 1) @@ ("2" :> 2) @@ ("3" :> 3) @@ ("5" :> 5) @@
    ("7" :> 7) @@ ("9" :> 9) @@ ("10" :> 10) @@ ("15" :> 15) @@
    ("20" :> 20) @@ ("25" :> 25) @@ ("30" :> 30) @@ ("40" :> 40) @@
    ("50" :> 50) @@ ("100" :> 100) @@ ("200" :> 200) @@ ("300" :> 300) @@
    ("1000" :> 1000)

\* FromStr of u32 / usize succeeds on a decimal numeral.
ParsesAsNumber(s) == s \in DOMAIN NumTable

\* Every supplied value of a numeric field parses.
WellTyped(raw) ==
    \A f \in NumericFields : raw[f] # None => ParsesAsNumber(raw[f][1])

\* The typed field: a number, a string / path, or an Option of a path.
Typed(f, r) ==
    IF f \in NumericFields THEN NumTable[r[1]]
    ELSE IF f \in OptionFields THEN r
    ELSE r[1]

MkOpt(raw) == [f \in Fields |-> Typed(f, raw[f])]

(***************************************************************************)
(* Opt::from_args(): per field, the flag if given, otherwise the variable  *)
(* named by the env attribute if set, otherwise the default_value.         *)
(***************************************************************************)
FromArgsEnvFirst(c, e) ==
    [f \in Fields |->
        IF e[f] # None THEN e[f]
        ELSE IF c[f] # None THEN c[f]
        ELSE DefaultValue[f]]

FromArgs(c, e) ==
    [f \in Fields |->
        IF c[f] # None THEN c[f]
        ELSE IF e[f] # None THEN e[f]
        ELSE DefaultValue[f]]

(***************************************************************************)
(* Opt::from_args_with_toml(toml): the same arguments and environment with *)
(* the file's values below the flags.  The relative order of a file value  *)
(* and an environment value of the same field is decided inside the        *)
(* StructOptToml derive; fileFirst is that order, and both are possible    *)
(* outcomes here.  A field supplied by one of the two takes it.            *)
(***************************************************************************)
FromArgsWithToml(c, e, t, fileFirst) ==
    [f \in Fields |->
        IF c[f] # None THEN c[f]
        ELSE IF fileFirst
             THEN IF t[f] # None THEN t[f]
                  ELSE IF e[f] # None THEN e[f] ELSE DefaultValue[f]
             ELSE IF e[f] # None THEN e[f]
                  ELSE IF t[f] # None THEN t[f] ELSE DefaultValue[f]]

\* PathBuf::join: an absolute argument replaces the path.
JoinPathDefaultName(dir, name) == dir \o "/" \o "config.toml"

JoinPath(dir, name) ==
    IF name \in AbsolutePaths THEN name ELSE dir \o "/" \o name

(***************************************************************************)
(* State of one run of main.                                               *)
(***************************************************************************)
VARIABLES
    cli,           \* the flags given on the command line
    env,           \* the environment variables that are set
    pc,            \* position of main
    baseline,      \* result of Opt::from_args(), None before it
    opt,           \* the variable opt of main, None before it is assigned
    configRaw,     \* outcome of reading the config file
    reads,         \* the file locations read so far
    reparsed,      \* Opt::from_args_with_toml returned Ok
    logRead,       \* the fields the subscriber set-up has read from opt
    logger,        \* the process-wide default subscriber
    installCalls,  \* calls of tracing::subscriber::set_global_default
    guard,         \* the WorkerGuard of the non-blocking writer
    guardsCreated, \* WorkerGuards created so far
    logRecords,    \* log records emitted so far
    serveArgs,     \* the arguments serve was called with, None before
    result,        \* how main ended: running, ok, err, panic, usage
    err,           \* the error that ended the bootstrap, "none" otherwise
    exitCode       \* the exit status of the process, None while it runs

vars ==
    <<cli, env, pc, baseline, opt, configRaw, reads, reparsed, logRead,
      logger, installCalls, guard, guardsCreated, logRecords, serveArgs,
      result, err, exitCode>>

Unread == [kind |-> "unread", toml |-> Empty]

Uninitialized == [state |-> "Uninitialized", sink |-> None]

Init ==
    /\ \E c \in FlagAssignments :
         \E e \in EnvAssignments[MaxSupplied - Size(c)] :
            /\ cli = c
            /\ env = e
    /\ pc = "from_args"
    /\ baseline = None
    /\ opt = None
    /\ configRaw = Unread
    /\ reads = << >>
    /\ reparsed = FALSE
    /\ logRead = None
    /\ logger = Uninitialized
    /\ installCalls = 0
    /\ guard = "none"
    /\ guardsCreated = 0
    /\ logRecords = 0
    /\ serveArgs = None
    /\ result = "running"
    /\ err = "none"
    /\ exitCode = None

(***************************************************************************)
(* ConfigResolver: main.rs lines 143-152.                                  *)
(***************************************************************************)
\* if let Some(config_path) = opt.config_path
AfterFromArgsSkipFile(o) == "build_subscriber"

AfterFromArgs(o) ==
    IF o.config_path # None THEN "read_config" ELSE "build_subscriber"

\* let mut opt = Opt::from_args();  a value that does not parse makes clap
\* print the usage error and exit the process.
ParseArgs ==
    /\ pc = "from_args"
    /\ LET raw == FromArgs(cli, env)
       IN  IF WellTyped(raw)
           THEN /\ baseline' = Some(MkOpt(raw))
                /\ opt' = Some(MkOpt(raw))
                /\ pc' = AfterFromArgs(MkOpt(raw))
                /\ UNCHANGED <<result, err, exitCode>>
           ELSE /\ pc' = "exited"
                /\ result' = "usage"
                /\ err' = "UsageError"
                /\ exitCode' = Some(1)
                /\ UNCHANGED <<baseline, opt>>
    /\ UNCHANGED <<cli, env, configRaw, reads, reparsed, logRead, logger,
                   installCalls, guard, guardsCreated, logRecords, serveArgs>>

\* What std::fs::read can find at the location: no file, an unreadable
\* one, bytes that are not UTF-8, text that is not TOML, or a TOML table of
\* at most k of the fields.
ReadOutcomes(k) ==
    {[kind |-> x, toml |-> Empty] :
        x \in {"not_found", "unreadable", "invalid_utf8", "invalid_toml"}}
    \cup {[kind |-> "toml", toml |-> t] : t \in FileAssignments[k]}

IoError(r) == r.kind \in {"not_found", "unreadable"}

\* std::fs::read(&config_file).context(..)?
AfterReadFallBack(r) == IF IoError(r) THEN "build_subscriber" ELSE "reparse"

AfterRead(r) == IF IoError(r) THEN "scope_exit" ELSE "reparse"

ReadConfig ==
    /\ pc = "read_config"
    /\ \E r \in ReadOutcomes(MaxSupplied - (Size(cli) + Size(env))) :
          /\ configRaw' = r
          /\ reads' = Append(reads,
                             JoinPath(opt[1].config_path[1], opt[1].config_file))
          /\ pc' = AfterRead(r)
          /\ result' = IF AfterRead(r) = "scope_exit" THEN "err" ELSE result
          /\ err' = IF IoError(r) THEN "read config_file failed" ELSE err
    /\ UNCHANGED <<cli, env, baseline, opt, reparsed, logRead, logger,
                   installCalls, guard, guardsCreated, logRecords, serveArgs,
                   exitCode>>

\* Opt::from_args_with_toml(std::str::from_utf8(&config_raw).context(..)?)
\*     .context("toml parse failed")?
TomlError(r) ==
    IF r.kind = "invalid_utf8" THEN "str parse failed"
    ELSE IF r.kind = "invalid_toml" \/ ~WellTyped(r.toml)
         THEN "toml parse failed"
         ELSE "none"

Reparse ==
    /\ pc = "reparse"
    /\ IF TomlError(configRaw) # "none"
       THEN /\ pc' = "scope_exit"
            /\ result' = "err"
            /\ err' = TomlError(configRaw)
            /\ UNCHANGED <<opt, reparsed>>
       ELSE /\ \E fileFirst \in BOOLEAN :
                 opt' = Some(MkOpt(FromArgsWithToml(cli, env, configRaw.toml,
                                                    fileFirst)))
            /\ reparsed' = TRUE
            /\ pc' = "build_subscriber"
            /\ UNCHANGED <<result, err>>
    /\ UNCHANGED <<cli, env, baseline, configRaw, reads, logRead, logger,
                   installCalls, guard, guardsCreated, logRecords, serveArgs,
                   exitCode>>

(***************************************************************************)
(* LogBootstrap: main.rs lines 154-175.                                    *)
(***************************************************************************)
\* FmtSubscriber::builder().with_env_filter(&opt.log_level).with_test_writer()
ConsoleSink(o) ==
    [writer        |-> "console",
     format        |-> "full",
     filter        |-> o.log_level,
     non_blocking  |-> FALSE,
     rotation      |-> "none",
     prefix        |-> "",
     directory     |-> "",
     max_log_files |-> 0]

\* rolling::Builder::new().rotation(DAILY).filename_prefix("raiko.log")
\*     .max_log_files(opt.max_log_days).build(log_path), wrapped by
\* tracing_appender::non_blocking, under subscriber_builder.json()
FileSink(o) ==
    [writer        |-> "rolling_file",
     format        |-> "json",
     filter        |-> o.log_level,
     non_blocking  |-> TRUE,
     rotation      |-> "DAILY",
     prefix        |-> "raiko.log",
     directory     |-> o.log_path[1],
     max_log_files |-> o.max_log_days]

\* tracing::subscriber::set_global_default: Ok and installs the subscriber
\* when none is installed, Err and leaves the installed one otherwise.
SetGlobalDefault(lg, sink) ==
    IF lg.state = "Uninitialized"
    THEN [ok |-> TRUE, logger |-> [state |-> "Installed", sink |-> Some(sink)]]
    ELSE [ok |-> FALSE, logger |-> lg]

\* let _guard = ...: the binding keeps the value until the end of main.
BindGuardDiscarded(g) == IF g = "alive" THEN "released" ELSE g

BindGuard(g) == g

\* The arm  None => { .. }  of the match on opt.log_path.
ConsoleArmNoInstall(o, lg) ==
    [panicked |-> FALSE, logger |-> lg, calls |-> 0, guard |-> "none",
     created |-> 0]

ConsoleArm(o, lg) ==
    LET r == SetGlobalDefault(lg, ConsoleSink(o))
    IN  [panicked |-> ~r.ok,
         logger   |-> r.logger,
         calls    |-> 1,
         guard    |-> "none",
         created  |-> 0]

\* The arm  Some(ref log_path) => { .. } : the appender is built (expect
\* panics when that fails), the non-blocking writer and its guard are
\* created, the subscriber is installed (unwrap panics on Err, and the
\* unwinding drops the guard), and the guard is the value of the arm.
FileArmFallsBackToConsole(o, lg, built) ==
    IF built
    THEN [panicked |-> FALSE,
          logger   |-> SetGlobalDefault(lg, FileSink(o)).logger,
          calls    |-> 1, guard |-> "alive", created |-> 1]
    ELSE ConsoleArm(o, lg)

FileArmPlainFormat(o, lg, built) ==
    IF built
    THEN [panicked |-> FALSE,
          logger   |-> SetGlobalDefault(lg,
                          [FileSink(o) EXCEPT !.format = "full"]).logger,
          calls    |-> 1, guard |-> "alive", created |-> 1]
    ELSE [panicked |-> TRUE, logger |-> lg, calls |-> 0, guard |-> "none",
          created |-> 0]

FileArm(o, lg, built) ==
    IF ~built
    THEN [panicked |-> TRUE, logger |-> lg, calls |-> 0, guard |-> "none",
          created |-> 0]
    ELSE LET r == SetGlobalDefault(lg, FileSink(o))
         IN  [panicked |-> ~r.ok,
              logger   |-> r.logger,
              calls    |-> 1,
              guard    |-> IF r.ok THEN "alive" ELSE "released",
              created  |-> 1]

\* Lines 154-156: the builder takes the filter directive from opt.log_level.
BuildSubscriber ==
    /\ pc = "build_subscriber"
    /\ logRead' = Some([log_level |-> opt[1].log_level])
    /\ pc' = "select_sink"
    /\ UNCHANGED <<cli, env, baseline, opt, configRaw, reads, reparsed, logger,
                   installCalls, guard, guardsCreated, logRecords, serveArgs,
                   result, err, exitCode>>

Installed(a) ==
    /\ logger' = a.logger
    /\ installCalls' = installCalls + a.calls
    /\ guard' = BindGuard(a.guard)
    /\ guardsCreated' = guardsCreated + a.created
    /\ pc' = IF a.panicked THEN "scope_exit" ELSE "info"
    /\ result' = IF a.panicked THEN "panic" ELSE result
    /\ err' = IF ~a.panicked THEN err
              ELSE IF a.calls = 0
                   THEN "initializing rolling file appender failed"
                   ELSE "SetGlobalDefaultError"

\* Lines 157 and 170-174: opt.log_path is None.
InstallConsole ==
    /\ pc = "select_sink"
    /\ opt[1].log_path = None
    /\ Installed(ConsoleArm(opt[1], logger))
    /\ UNCHANGED <<cli, env, baseline, opt, configRaw, reads, reparsed,
                   logRead, logRecords, serveArgs, exitCode>>

\* Lines 157-169: opt.log_path is Some; the directory may not be usable.
InstallFile ==
    /\ pc = "select_sink"
    /\ opt[1].log_path # None
    /\ \E built \in BOOLEAN : Installed(FileArm(opt[1], logger, built))
    /\ UNCHANGED <<cli, env, baseline, opt, configRaw, reads, reparsed,
                   logRead, logRecords, serveArgs, exitCode>>

(***************************************************************************)
(* The hand-off: main.rs lines 176-189.                                    *)
(***************************************************************************)
\* info!("Start args: {:?}", opt);
InfoStartArgs ==
    /\ pc = "info"
    /\ logRecords' = logRecords + 1
    /\ pc' = "call_serve"
    /\ UNCHANGED <<cli, env, baseline, opt, configRaw, reads, reparsed,
                   logRead, logger, installCalls, guard, guardsCreated,
                   serveArgs, result, err, exitCode>>

\* The arguments of the call of serve.
ServeArgsValidated(o) ==
    [bind              |-> o.bind,
     guest             |-> o.guest,
     cache             |-> o.cache,
     l2_chain          |-> o.l2_chain,
     sgx_instance_id   |-> o.sgx_instance_id,
     proof_cache       |-> o.proof_cache,
     concurrency_limit |-> o.concurrency_limit,
     max_caches        |-> IF o.max_caches < o.concurrency_limit
                           THEN o.concurrency_limit ELSE o.max_caches]

ServeArgs(o) ==
    [bind              |-> o.bind,
     guest             |-> o.guest,
     cache             |-> o.cache,
     l2_chain          |-> o.l2_chain,
     sgx_instance_id   |-> o.sgx_instance_id,
     proof_cache       |-> o.proof_cache,
     concurrency_limit |-> o.concurrency_limit,
     max_caches        |-> o.max_caches]

CallServe ==
    /\ pc = "call_serve"
    /\ serveArgs' = Some(ServeArgs(opt[1]))
    /\ pc' = "serving"
    /\ UNCHANGED <<cli, env, baseline, opt, configRaw, reads, reparsed,
                   logRead, logger, installCalls, guard, guardsCreated,
                   logRecords, result, err, exitCode>>

\* serve, while it runs, emits log records through the installed subscriber.
ServeEmits ==
    /\ pc = "serving"
    /\ logRecords < 1 + MaxLogRecords
    /\ logRecords' = logRecords + 1
    /\ UNCHANGED <<cli, env, pc, baseline, opt, configRaw, reads, reparsed,
                   logRead, logger, installCalls, guard, guardsCreated,
                   serveArgs, result, err, exitCode>>

\* serve(..).await?; Ok(())
ServeReturns ==
    /\ pc = "serving"
    /\ \E r \in {"ok", "err"} :
          /\ result' = r
          /\ err' = IF r = "err" THEN "serve failed" ELSE err
    /\ pc' = "scope_exit"
    /\ UNCHANGED <<cli, env, baseline, opt, configRaw, reads, reparsed,
                   logRead, logger, installCalls, guard, guardsCreated,
                   logRecords, serveArgs, exitCode>>

\* main returns or unwinds: its locals are dropped, _guard among them.
ScopeExit ==
    /\ pc = "scope_exit"
    /\ guard' = IF guard = "alive" THEN "released" ELSE guard
    /\ pc' = "terminate"
    /\ UNCHANGED <<cli, env, baseline, opt, configRaw, reads, reparsed,
                   logRead, logger, installCalls, guardsCreated, logRecords,
                   serveArgs, result, err, exitCode>>

\* The exit status of main's Result<()>, or of a panic.
ExitStatus(r) ==
    CASE r = "ok"    -> 0
      [] r = "err"   -> 1
      [] r = "panic" -> 101
      [] OTHER       -> 1

ProcessExit ==
    /\ pc = "terminate"
    /\ exitCode' = Some(ExitStatus(result))
    /\ pc' = "exited"
    /\ UNCHANGED <<cli, env, baseline, opt, configRaw, reads, reparsed,
                   logRead, logger, installCalls, guard, guardsCreated,
                   logRecords, serveArgs, result, err>>

Next ==
    \/ ParseArgs
    \/ ReadConfig
    \/ Reparse
    \/ BuildSubscriber
    \/ InstallConsole
    \/ InstallFile
    \/ InfoStartArgs
    \/ CallServe
    \/ ServeEmits
    \/ ServeReturns
    \/ ScopeExit
    \/ ProcessExit

Spec == Init /\ [][Next]_vars

(***************************************************************************)
(* Properties.                                                             *)
(***************************************************************************)
\* The compiled defaults as typed values.
CompiledDefaults ==
    [bind              |-> "0.0.0.0:8080",
     cache             |-> "/tmp",
     guest             |-> "raiko-host/guests",
     sgx_instance_id   |-> 0,
     log_path          |-> None,
     proof_cache       |-> 1000,
     concurrency_limit |-> 10,
     max_log_days      |-> 7,
     l2_chain          |-> "internal_devnet_a",
     max_caches        |-> 20,
     config_path       |-> None,
     config_file       |-> "config.toml",
     log_level         |-> "info"]

FlagOrEnvOrDefault(f) ==
    IF cli[f] # None THEN Typed(f, cli[f])
    ELSE IF env[f] # None THEN Typed(f, env[f])
    ELSE CompiledDefaults[f]

NoConfigPath == cli.config_path = None /\ env.config_path = None

\* C2: with no config path given by flag or environment, the resolved Config
\* is the baseline parse, no file is read, and every field is the flag value
\* if a flag was given, otherwise the environment value if the variable is
\* set, otherwise the compiled default.
C2_BaselineIsFlagEnvDefault ==
    (NoConfigPath /\ opt # None) =>
        /\ opt = baseline
        /\ reads = << >>
        /\ ~reparsed
        /\ \A f \in Fields : opt[1][f] = FlagOrEnvOrDefault(f)

C2_Witness ==
    /\ NoConfigPath
    /\ pc = "serving"
    /\ cli.bind # None /\ env.bind # None
    /\ cli.max_caches = None /\ env.max_caches # None
    /\ opt[1].proof_cache = 1000

FileUnusable ==
    \/ configRaw.kind \in
          {"not_found", "unreadable", "invalid_utf8", "invalid_toml"}
    \/ configRaw.kind = "toml" /\ ~WellTyped(configRaw.toml)

\* C3: when the config path is set and the file is missing, unreadable, not
\* UTF-8 or not valid TOML for Opt, main returns an error: no Config is
\* produced from the second parse, the baseline is not used by what follows,
\* no subscriber is installed and serve is not called.
C3_UnusableFileAborts ==
    (FileUnusable /\ pc # "reparse") =>
        /\ result = "err"
        /\ pc \in {"scope_exit", "terminate", "exited"}
        /\ ~reparsed
        /\ logRead = None
        /\ logger = Uninitialized
        /\ installCalls = 0
        /\ serveArgs = None
        /\ exitCode \in {None, Some(1)}

C3_Witness ==
    /\ configRaw.kind = "not_found"
    /\ pc = "exited"
    /\ exitCode = Some(1)

ResolverComplete ==
    /\ baseline # None
    /\ opt # None
    /\ baseline[1].config_path # None => reparsed /\ Len(reads) = 1
    /\ pc # "read_config" /\ pc # "reparse"

\* C4: the resolver (baseline parse and, with a config path, the file read
\* and the second parse) is complete before the subscriber set-up reads
\* log_level, log_path or max_log_days, which it reads from the final opt;
\* the subscriber is installed, and with a file sink the guard exists, before
\* serve is called.
C4_ResolveThenLogThenServe ==
    /\ logRead # None =>
          ResolverComplete /\ logRead[1].log_level = opt[1].log_level
    /\ logger.state = "Installed" =>
          /\ ResolverComplete
          /\ logRead # None
          /\ logger.sink[1].filter = opt[1].log_level
          /\ logger.sink[1].writer = "rolling_file" =>
                /\ opt[1].log_path = Some(logger.sink[1].directory)
                /\ logger.sink[1].max_log_files = opt[1].max_log_days
    /\ serveArgs # None =>
          /\ ResolverComplete
          /\ logger.state = "Installed"
          /\ logger.sink[1].writer = "rolling_file" => guardsCreated = 1
    /\ pc \in {"call_serve", "serving"} => logger.state = "Installed"

C4_Witness ==
    /\ serveArgs # None
    /\ reparsed
    /\ logger.sink[1].writer = "rolling_file"
    /\ configRaw.toml.log_path # None
    /\ guard = "alive"

GuardStep ==
    /\ guard = "released" =>
          /\ guard' = "released"
          /\ logRecords' = logRecords
          /\ serveArgs' = serveArgs
          /\ pc' = "exited"
    /\ guard = "alive" /\ guard' # "alive" =>
          /\ guard' = "released"
          /\ pc = "scope_exit"
          /\ result \in {"ok", "err"}
          /\ serveArgs # None

InstallStep ==
    /\ logger.state = "Installed" => logger' = logger
    /\ logger.state = "Installed" /\ installCalls' # installCalls =>
          result' = "panic" /\ serveArgs' = None

\* C6: set_global_default is called at most once in a run, and exactly once
\* (in one of the two arms) when the bootstrap succeeds; an installed
\* subscriber is never replaced, and a call made with one installed changes
\* nothing and panics.
C6_InstalledAtMostOnce ==
    /\ [](/\ installCalls <= 1
          /\ logger.state = "Installed" <=> installCalls = 1
          /\ serveArgs # None => installCalls = 1
          /\ pc \in {"info", "call_serve", "serving"} => installCalls = 1)
    /\ [][InstallStep]_vars

C6_Witness ==
    /\ installCalls = 1
    /\ logger.state = "Installed"
    /\ logger.sink[1].writer = "console"
    /\ pc = "exited"
    /\ result = "ok"

BootstrapErrors ==
    {"UsageError", "read config_file failed", "str parse failed",
     "toml parse failed", "initializing rolling file appender failed"}

ErrorStep ==
    err \in BootstrapErrors =>
        /\ err' = err
        /\ opt' = opt
        /\ reads' = reads
        /\ logger' = logger
        /\ serveArgs' = serveArgs
        /\ pc' \in {"terminate", "exited"}

\* C7: a usage error, a config file read or parse error and a failure to
\* build the rolling file appender each end the process with a non-zero
\* status: serve is not called, no subscriber is installed (no console
\* fall-back for a failed file sink), the baseline is not used in place of a
\* failed overlay, and nothing is tried again.
C7_BootstrapErrorsAreTerminal ==
    /\ [](err \in BootstrapErrors =>
            /\ pc \in {"scope_exit", "terminate", "exited"}
            /\ result \in {"usage", "err", "panic"}
            /\ serveArgs = None
            /\ logger = Uninitialized
            /\ installCalls = 0
            /\ Len(reads) <= 1
            /\ pc = "exited" => exitCode # None /\ exitCode[1] # 0)
    /\ [](logger.state = "Installed" /\ opt[1].log_path # None =>
            logger.sink[1].writer = "rolling_file")
    /\ [](logRead # None /\ baseline[1].config_path # None => reparsed)
    /\ [][ErrorStep]_vars

C7_Witness ==
    /\ err = "initializing rolling file appender failed"
    /\ pc = "exited"
    /\ exitCode = Some(101)
    /\ opt[1].log_path # None

LogBootstrapDone ==
    pc \in {"info", "call_serve", "serving"} \/ serveArgs # None

InvertedScenario ==
    /\ cli.max_caches = Some("10")
    /\ cli.concurrency_limit = None
    /\ env.concurrency_limit = None
    /\ configRaw.kind = "toml"
    /\ configRaw.toml.concurrency_limit = Some("25")
    /\ reparsed

\* C9: nothing checks max_caches against concurrency_limit.  A file with
\* concurrency_limit = 25 and the flag --max-caches=10 resolve to 25 and 10,
\* the bootstrap goes on without an error of its own, and serve is called
\* with exactly the resolved pair.
C9_NoSemanticValidation ==
    /\ serveArgs # None =>
          /\ serveArgs[1].concurrency_limit = opt[1].concurrency_limit
          /\ serveArgs[1].max_caches = opt[1].max_caches
    /\ InvertedScenario =>
          /\ opt[1].concurrency_limit = 25
          /\ opt[1].max_caches = 10
          /\ err \notin {"UsageError", "read config_file failed",
                         "str parse failed", "toml parse failed"}
          /\ pc \in {"build_subscriber", "select_sink", "info", "call_serve"}
                => result = "running" /\ err = "none"
          /\ pc = "serving" =>
                /\ serveArgs[1].concurrency_limit = 25
                /\ serveArgs[1].max_caches = 10

C9_Witness ==
    /\ InvertedScenario
    /\ pc = "exited"
    /\ result = "ok"
    /\ serveArgs[1].concurrency_limit = 25
    /\ serveArgs[1].max_caches = 10

ExpectedDir ==
    IF cli.config_path # None THEN cli.config_path[1] ELSE env.config_path[1]

ExpectedName ==
    IF cli.config_file # None THEN cli.config_file[1]
    ELSE IF env.config_file # None THEN env.config_file[1]
    ELSE "config.toml"

\* C10: the file is read exactly when the baseline has a config path; its
\* location is that path joined with the baseline config-file name; it is
\* read at most once, and nothing is read without a config path, whatever
\* config_path or config_file the file itself contains.
C10_OneFileAtBaselineLocation ==
    /\ Len(reads) <= 1
    /\ baseline = None => reads = << >>
    /\ baseline # None /\ pc # "read_config" =>
          (reads # << >> <=> baseline[1].config_path # None)
    /\ reads # << >> =>
          reads[1] = IF ExpectedName \in AbsolutePaths
                     THEN ExpectedName
                     ELSE ExpectedDir \o "/" \o ExpectedName

C10_Witness ==
    /\ Len(reads) = 1
    /\ reads[1] = "/flag/etc/flag.toml"
    /\ reparsed
    /\ configRaw.toml.config_path # None
    /\ pc = "exited"

====
